---- MODULE Spec2Model ----
(***************************************************************************)
(* The EEPROM driver of eeprom.c / EEPROM.h (AT25320A, M95040-W) as a      *)
(* state machine: the chip-select pad, the bytes exchanged on the SPI bus, *)
(* the driver's position in each function (pc = the source line of the     *)
(* next statement) and the attached device.                                *)
(***************************************************************************)
EXTENDS Integers, Sequences, FiniteSets, TLC

VARIABLES
    pad,        \* level of the chip-select pad: 0 = cleared (device selected), 1 = set
    frame,      \* device: bytes received since it was selected
    listening,  \* device: FALSE when the command of this frame is being ignored
    status,     \* device: the status register (one byte)
    mem,        \* device: the memory array, cells written so far (others are erased)
    stk,        \* per thread: the call stack, innermost first, of [fn, pc]
    args,       \* per thread: the arguments of the outermost call
    buf,        \* per thread: the caller's data buffer
    buf0,       \* per thread: the caller's data buffer as it was at the call
    idx,        \* per thread: the loop variable i of the range functions
    retVal,     \* per thread: the value returned by the last function that returned one
    wstatus,    \* per thread: the local variable status of EEPROM_wait
    trace,      \* per thread: pad and bus events of the outermost call so far
    touched,    \* per thread: the indices of data[] the outermost call has accessed
    plan        \* per thread: a scripted caller's calls and the next of them,
                \* the device's status register and memory when the script
                \* began and whether it was ready, the polls after which the
                \* device's write cycle has ended, and whether the caller
                \* takes the bus for itself before it calls the driver

vars == <<pad, frame, listening, status, mem, stk, args, buf, buf0, idx, retVal,
          wstatus, trace, touched, plan>>

devVars == <<frame, listening, status, mem>>

locals == <<args, buf, buf0, idx, retVal, wstatus, touched, plan>>

(***************************************************************************)
(* Bounds of the model.                                                    *)
(***************************************************************************)
\* longest range length the free caller passes, and the size of its buffer
MaxLen == 2
\* most status reads that find the device busy during one EEPROM_wait: where
\* the polling loop itself is examined, and elsewhere
MaxBusyPolls == 50
MaxFreePolls == 2

(***************************************************************************)
(* Program constants.                                                      *)
(***************************************************************************)
EEPROM_SPI_ENABLE_WRITE == 6
\* faulty variant: the opcode of enableWrite copied into disableWrite
DisableWriteOpcode_Copied == EEPROM_SPI_ENABLE_WRITE

EEPROM_SPI_DISABLE_WRITE == 4
\* faulty variant: the opcode of disableWrite copied into the status read
ReadStatusOpcode_Copied == EEPROM_SPI_DISABLE_WRITE

EEPROM_SPI_READ_STATUS_REG == 5
\* faulty variant: the status register is read where it should be written
WriteStatusOpcode_Copied == EEPROM_SPI_READ_STATUS_REG

EEPROM_SPI_WRITE_STATUS_REG == 1
EEPROM_SPI_READ_DATA == 3
\* faulty variant: the opcode of the read command copied into the write command
WriteOpcode_Copied == EEPROM_SPI_READ_DATA

EEPROM_SPI_WRITE_DATA == 2

\* faulty variant: the mask selects bit 7
StatusBitRDY_TopBit == 2 ^ 7

EEPROM_STATUS_BIT_RDY == 1
EEPROM_STATUS_BIT_WEN == 2
\* faulty variant: the mask covers one of the two BP bits
StatusBitBP_OneBit == 2 * EEPROM_STATUS_BIT_WEN

EEPROM_STATUS_BIT_BP == 12
EEPROM_STATUS_BIT_WPEN == 128

BlockProtection_None == 0
BlockProtection_Quarter == 1
BlockProtection_Half == 2
BlockProtection_WholeMemory == 3

\* size of the memory array: BlockProtection_WholeMemory covers 0x0000 - 0x0FFF
MemSize == 4096

(***************************************************************************)
(* C integer arithmetic.                                                   *)
(***************************************************************************)
ToUint8(x) == x % 256

ToUint16(x) == x % 65536

RECURSIVE BitAndN(_, _, _)
BitAndN(x, y, n) ==
    IF n = 0 THEN 0
    ELSE (x % 2) * (y % 2) + 2 * BitAndN(x \div 2, y \div 2, n - 1)

\* x & y on operands of at most 16 bits
BitAnd(x, y) == BitAndN(x, y, 16)

RECURSIVE BitOrN(_, _, _)
BitOrN(x, y, n) ==
    IF n = 0 THEN 0
    ELSE (IF x % 2 = 1 \/ y % 2 = 1 THEN 1 ELSE 0)
         + 2 * BitOrN(x \div 2, y \div 2, n - 1)

\* x | y on operands of at most 16 bits
BitOr(x, y) == BitOrN(x, y, 16)

\* x >> n and x << n on non-negative int operands
ShiftRight(x, n) == x \div (2 ^ n)

ShiftLeft(x, n) == x * (2 ^ n)

(***************************************************************************)
(* The status register as EEPROM_StatusRegister overlays it: the bit       *)
(* fields of SR.B on the byte SR.R. The compilers of the SPC5 (Power       *)
(* Architecture, big-endian) allocate bit fields from the most significant *)
(* bit, so the field declared first holds the highest bits.                *)
(***************************************************************************)
\* the bit field of the given width that starts offset bits below the top of R
BitField(R, offset, width) == (R \div (2 ^ (8 - offset - width))) % (2 ^ width)

EEPROM_StatusRegister(R) ==
    [WPEN   |-> BitField(R, 0, 1),
     UNUSED |-> BitField(R, 1, 3),
     BP     |-> BitField(R, 4, 2),
     WEN    |-> BitField(R, 6, 1),
     RDY    |-> BitField(R, 7, 1)]

\* faulty variant: the level is stored without the shift to bits 2-3
StatusByteOfBP_Unshifted(level) == level

\* the status byte whose BP field holds the level and whose other fields are 0:
\* what a caller obtains by assigning SR.B.BP and passing SR.R
StatusByteOfBP(level) == ShiftLeft(level, 2)

(***************************************************************************)
(* The attached device, as far as the driver's documentation and the       *)
(* command set describe it: a status register, a linear memory array, and  *)
(* a command decoder that acts on one frame per chip-select cycle.         *)
(***************************************************************************)
\* the device's command set
DevWREN == 6
DevWRDI == 4
DevRDSR == 5
DevWRSR == 1
DevREAD == 3
DevWRITE == 2

\* the device's status register bits
DevRDY == 1
DevWEN == 2
DevBP == 12
DevWPEN == 128

\* value of a memory cell that was never written
ErasedByte == 255

\* what the driver reads when the device does not drive the data line
HiZ == 255

DevBusy(s) == BitAnd(s, DevRDY) # 0

DevWriteEnabled(s) == BitAnd(s, DevWEN) # 0

DevProtection(s) == ShiftRight(BitAnd(s, DevBP), 2)

DevProtectLatch(s) == BitAnd(s, DevWPEN) # 0

\* the address range each block-protection level makes read-only
IsProtected(bp, a) ==
    CASE bp = BlockProtection_None -> FALSE
      [] bp = BlockProtection_Quarter -> a >= 3072 /\ a <= 4095
      [] bp = BlockProtection_Half -> a >= 2048 /\ a <= 4095
      [] bp = BlockProtection_WholeMemory -> a >= 0 /\ a <= 4095

MemRead(m, a) == IF a \in DOMAIN m THEN m[a] ELSE ErasedByte

\* the cell a frame's two address bytes select: the array has MemSize cells
FrameAddr(f) == (f[2] * 256 + f[3]) % MemSize

\* the memory after the data bytes of write frame f are stored: byte k of the
\* frame goes to the cell (address + k - 4) modulo the size of the array, the
\* later byte winning, and a protected cell keeps its content
MemAfterWrite(m, f, bp) ==
    LET base == FrameAddr(f)
        cells == {x \in {(base + i) % MemSize : i \in 0..(Len(f) - 4)} :
                     ~IsProtected(bp, x)}
        LastK(x) == LET k0 == 4 + ((x - base) % MemSize)
                    IN k0 + MemSize * ((Len(f) - k0) \div MemSize)
        Val(x) == IF x \in cells THEN f[LastK(x)] ELSE m[x]
    IN [x \in {y \in (DOMAIN m) \cup cells : Val(y) # ErasedByte} |-> Val(x)]

\* the byte the device shifts out during the next exchange
DeviceReply ==
    IF pad # 0 \/ frame = <<>> THEN HiZ
    ELSE IF frame[1] = DevRDSR THEN status
    ELSE IF listening /\ frame[1] = DevREAD /\ Len(frame) >= 3
         THEN MemRead(mem, (FrameAddr(frame) + (Len(frame) - 3)) % MemSize)
    ELSE HiZ

\* the device shifts in one byte; a command that arrives during a write cycle
\* is ignored, except a status read
DeviceReceive(byte) ==
    /\ frame' = IF pad = 0 THEN Append(frame, ToUint8(byte)) ELSE frame
    /\ listening' = IF pad = 0 /\ frame = <<>>
                    THEN (~DevBusy(status)
                          \/ ToUint8(byte) = DevRDSR)
                    ELSE listening
    /\ UNCHANGED <<status, mem>>

\* the device is selected: a new frame begins
DeviceSelect ==
    /\ frame' = <<>>
    /\ listening' = TRUE
    /\ UNCHANGED <<status, mem>>

\* the status register after the device is deselected at the end of frame f
StatusAfterFrame(f) ==
    IF ~listening \/ f = <<>> THEN status
    ELSE IF f = <<DevWREN>>
         THEN BitOr(status, DevWEN)
    ELSE IF f = <<DevWRDI>>
         THEN status - BitAnd(status, DevWEN)
    ELSE IF /\ f[1] = DevWRSR /\ Len(f) = 2
            /\ DevWriteEnabled(status) /\ ~DevProtectLatch(status)
         THEN BitOr(BitAnd(f[2], DevBP + DevWPEN),
                    DevWEN + DevRDY)
    ELSE IF /\ f[1] = DevWRITE /\ Len(f) >= 4
            /\ DevWriteEnabled(status)
            /\ \E k \in 4..Len(f) :
                   ~IsProtected(DevProtection(status), (FrameAddr(f) + (k - 4)) % MemSize)
         THEN BitOr(status, DevRDY)
    ELSE status

\* the memory array after the device is deselected at the end of frame f
MemAfterFrame(f) ==
    IF /\ listening /\ Len(f) >= 4 /\ f[1] = DevWRITE
       /\ DevWriteEnabled(status)
    THEN MemAfterWrite(mem, f, DevProtection(status))
    ELSE mem

\* the device is deselected: it acts on the frame it received
DeviceDeselect ==
    /\ status' = StatusAfterFrame(frame)
    /\ mem' = MemAfterFrame(frame)
    /\ frame' = <<>>
    /\ listening' = FALSE

\* the device's internal write cycle ends: RDY and WEN are cleared
DeviceWriteCycleEnd ==
    /\ DevBusy(status)
    /\ status' = status - BitAnd(status, DevRDY + DevWEN)
    /\ UNCHANGED <<pad, frame, listening, mem, stk, trace, locals>>

(***************************************************************************)
(* Pad and bus events, as the trace records them.                          *)
(***************************************************************************)
CsLow == <<"cs", 0, 0>>

CsHigh == <<"cs", 1, 0>>

Xchg(tx, rx) == <<"x", tx, rx>>

Delay(n) == <<"delay", n, 0>>

Threads == {1, 2}

Running(c, f) == stk[c] # <<>> /\ Head(stk[c]).fn = f

PC(c) == Head(stk[c]).pc

Goto(c, line) ==
    stk' = [stk EXCEPT ![c] = <<[Head(@) EXCEPT !.pc = line]>> \o Tail(@)]

\* the function returns to its caller
Return(c) == stk' = [stk EXCEPT ![c] = Tail(@)]

NumDelays(t) == Cardinality({k \in 1..Len(t) : t[k][1] = "delay"})

\* the write cycle is taken to end before one EEPROM_wait polls more often
PollCap(c) == plan[c].polls

(***************************************************************************)
(* HAL functions.                                                          *)
(***************************************************************************)
\* spi_lld_polled_exchange(spip, frame): one byte out, one byte in
EEPROM_exchangeSpi(c, byte) ==
    /\ DeviceReceive(ToUint16(byte))
    /\ trace' = [trace EXCEPT ![c] = Append(@, Xchg(ToUint16(byte), ToUint8(DeviceReply)))]
    /\ UNCHANGED pad

\* faulty variant: the call that sets the pad is missing
EEPROM_setChipSelect_Skipped(c) ==
    UNCHANGED <<pad, devVars, trace>>

\* pal_lld_setpad: the pad goes high, which deselects the device
EEPROM_setChipSelect(c) ==
    /\ pad' = 1
    /\ IF pad = 0 THEN DeviceDeselect ELSE UNCHANGED devVars
    /\ trace' = [trace EXCEPT ![c] = Append(@, CsHigh)]

\* faulty variant: the pad is driven to the wrong level
EEPROM_clearChipSelect_SetsPad(c) ==
    /\ pad' = 1
    /\ IF pad = 0 THEN DeviceDeselect ELSE UNCHANGED devVars
    /\ trace' = [trace EXCEPT ![c] = Append(@, CsHigh)]

\* pal_lld_clearpad: the pad goes low, which selects the device
EEPROM_clearChipSelect(c) ==
    /\ pad' = 0
    /\ IF pad = 1 THEN DeviceSelect ELSE UNCHANGED devVars
    /\ trace' = [trace EXCEPT ![c] = Append(@, CsLow)]

(***************************************************************************)
(* The driver: one action per function, one step per statement.            *)
(***************************************************************************)
EEPROM_enableWrite(c) ==
    /\ Running(c, "enableWrite")
    /\ CASE PC(c) = 54 -> EEPROM_clearChipSelect(c) /\ Goto(c, 55) /\ UNCHANGED locals
         [] PC(c) = 55 -> /\ EEPROM_exchangeSpi(c, EEPROM_SPI_ENABLE_WRITE)
                          /\ Goto(c, 56) /\ UNCHANGED locals
         [] PC(c) = 56 -> EEPROM_setChipSelect(c) /\ Goto(c, 57) /\ UNCHANGED locals
         [] PC(c) = 57 -> Return(c) /\ UNCHANGED <<pad, devVars, trace, locals>>

EEPROM_disableWrite(c) ==
    /\ Running(c, "disableWrite")
    /\ CASE PC(c) = 61 -> EEPROM_clearChipSelect(c) /\ Goto(c, 62) /\ UNCHANGED locals
         [] PC(c) = 62 -> /\ EEPROM_exchangeSpi(c, EEPROM_SPI_DISABLE_WRITE)
                          /\ Goto(c, 63) /\ UNCHANGED locals
         [] PC(c) = 63 -> EEPROM_setChipSelect(c) /\ Goto(c, 64) /\ UNCHANGED locals
         [] PC(c) = 64 -> Return(c) /\ UNCHANGED <<pad, devVars, trace, locals>>

\* line 70 waits for the device when PollCap polls of one EEPROM_wait have
\* found it busy: the write cycle is taken to end by then, and the trace of
\* one EEPROM_wait records no more than PollCap delays
EEPROM_readStatusReg(c) ==
    /\ Running(c, "readStatusReg")
    /\ CASE PC(c) = 68 -> EEPROM_clearChipSelect(c) /\ Goto(c, 69) /\ UNCHANGED locals
         [] PC(c) = 69 -> /\ EEPROM_exchangeSpi(c, EEPROM_SPI_READ_STATUS_REG)
                          /\ Goto(c, 70) /\ UNCHANGED locals
         [] PC(c) = 70 -> /\ NumDelays(trace[c]) <= PollCap(c)
                          /\ DevBusy(status) => NumDelays(trace[c]) < PollCap(c)
                          /\ EEPROM_exchangeSpi(c, 0)
                          /\ retVal' = [retVal EXCEPT ![c] = ToUint8(DeviceReply)]
                          /\ Goto(c, 71)
                          /\ UNCHANGED <<args, buf, buf0, idx, wstatus, touched, plan>>
         [] PC(c) = 71 -> EEPROM_setChipSelect(c) /\ Goto(c, 72) /\ UNCHANGED locals
         [] PC(c) = 72 -> Return(c) /\ UNCHANGED <<pad, devVars, trace, locals>>

EEPROM_writeStatusReg(c) ==
    /\ Running(c, "writeStatusReg")
    /\ CASE PC(c) = 77 -> EEPROM_clearChipSelect(c) /\ Goto(c, 78) /\ UNCHANGED locals
         [] PC(c) = 78 -> /\ EEPROM_exchangeSpi(c, EEPROM_SPI_WRITE_STATUS_REG)
                          /\ Goto(c, 79) /\ UNCHANGED locals
         [] PC(c) = 79 -> /\ EEPROM_exchangeSpi(c, args[c].data)
                          /\ Goto(c, 80) /\ UNCHANGED locals
         [] PC(c) = 80 -> EEPROM_setChipSelect(c) /\ Goto(c, 81) /\ UNCHANGED locals
         [] PC(c) = 81 -> Return(c) /\ UNCHANGED <<pad, devVars, trace, locals>>

\* faulty variant: the low byte of the address is sent first
AddrHigh_LowByte(addr) == BitAnd(addr, 255)

\* the two address bytes of the data commands
AddrHigh(addr) == ShiftRight(addr, 8)

\* faulty variant: the mask is missing
AddrLow_Unmasked(addr) == addr

AddrLow(addr) == BitAnd(addr, 255)

EEPROM_readByte(c) ==
    /\ Running(c, "readByte")
    /\ CASE PC(c) = 85 -> EEPROM_clearChipSelect(c) /\ Goto(c, 86) /\ UNCHANGED locals
         [] PC(c) = 86 -> /\ EEPROM_exchangeSpi(c, EEPROM_SPI_READ_DATA)
                          /\ Goto(c, 87) /\ UNCHANGED locals
         [] PC(c) = 87 -> /\ EEPROM_exchangeSpi(c, AddrHigh(args[c].addr))
                          /\ Goto(c, 88) /\ UNCHANGED locals
         [] PC(c) = 88 -> /\ EEPROM_exchangeSpi(c, AddrLow(args[c].addr))
                          /\ Goto(c, 89) /\ UNCHANGED locals
         [] PC(c) = 89 -> /\ EEPROM_exchangeSpi(c, 0)
                          /\ retVal' = [retVal EXCEPT ![c] = ToUint8(DeviceReply)]
                          /\ Goto(c, 90)
                          /\ UNCHANGED <<args, buf, buf0, idx, wstatus, touched, plan>>
         [] PC(c) = 90 -> EEPROM_setChipSelect(c) /\ Goto(c, 91) /\ UNCHANGED locals
         [] PC(c) = 91 -> Return(c) /\ UNCHANGED <<pad, devVars, trace, locals>>

EEPROM_writeByte(c) ==
    /\ Running(c, "writeByte")
    /\ CASE PC(c) = 96 -> EEPROM_clearChipSelect(c) /\ Goto(c, 97) /\ UNCHANGED locals
         [] PC(c) = 97 -> /\ EEPROM_exchangeSpi(c, EEPROM_SPI_WRITE_DATA)
                          /\ Goto(c, 98) /\ UNCHANGED locals
         [] PC(c) = 98 -> /\ EEPROM_exchangeSpi(c, AddrHigh(args[c].addr))
                          /\ Goto(c, 99) /\ UNCHANGED locals
         [] PC(c) = 99 -> /\ EEPROM_exchangeSpi(c, AddrLow(args[c].addr))
                          /\ Goto(c, 100) /\ UNCHANGED locals
         [] PC(c) = 100 -> /\ EEPROM_exchangeSpi(c, args[c].data)
                           /\ Goto(c, 101) /\ UNCHANGED locals
         [] PC(c) = 101 -> EEPROM_setChipSelect(c) /\ Goto(c, 102) /\ UNCHANGED locals
         [] PC(c) = 102 -> Return(c) /\ UNCHANGED <<pad, devVars, trace, locals>>

\* faulty variant: the loop runs once too often
LoopTest_Inclusive(i, length) == i <= length

\* the loop condition of the range functions
LoopTest(i, length) == i < length

\* faulty variant: every byte is taken from data[0]
DataAt_First(b, i) == b[1]

\* faulty variant: the index is one too high
DataAt_Next(b, i) == b[i + 2]

\* data[i] of a caller's buffer
DataAt(b, i) == b[i + 1]

\* faulty variant: every byte is stored in data[0]
StoreAt_First(b, i, v) == [b EXCEPT ![1] = v]

\* the caller's buffer after data[i] = v
StoreAt(b, i, v) == [b EXCEPT ![i + 1] = v]

\* line 111 is i = 0; line 113 is the test i < length with the loop body and i++
\* (i < length holds before i++, so the uint32_t i never wraps)
EEPROM_readRange(c) ==
    /\ Running(c, "readRange")
    /\ CASE PC(c) = 106 -> EEPROM_clearChipSelect(c) /\ Goto(c, 107) /\ UNCHANGED locals
         [] PC(c) = 107 -> /\ EEPROM_exchangeSpi(c, EEPROM_SPI_READ_DATA)
                           /\ Goto(c, 108) /\ UNCHANGED locals
         [] PC(c) = 108 -> /\ EEPROM_exchangeSpi(c, AddrHigh(args[c].addr))
                           /\ Goto(c, 109) /\ UNCHANGED locals
         [] PC(c) = 109 -> /\ EEPROM_exchangeSpi(c, AddrLow(args[c].addr))
                           /\ Goto(c, 111) /\ UNCHANGED locals
         [] PC(c) = 111 -> /\ idx' = [idx EXCEPT ![c] = 0]
                           /\ Goto(c, 113)
                           /\ UNCHANGED <<pad, devVars, trace, args, buf, buf0, retVal,
                                          wstatus, touched, plan>>
         [] PC(c) = 113 ->
              IF LoopTest(idx[c], args[c].length)
              THEN /\ EEPROM_exchangeSpi(c, 0)
                   /\ buf' = [buf EXCEPT ![c] = StoreAt(@, idx[c], ToUint8(DeviceReply))]
                   /\ touched' = [touched EXCEPT ![c] = @ \cup {idx[c]}]
                   /\ idx' = [idx EXCEPT ![c] = @ + 1]
                   /\ UNCHANGED <<stk, args, buf0, retVal, wstatus, plan>>
              ELSE /\ Goto(c, 115)
                   /\ UNCHANGED <<pad, devVars, trace, locals>>
         [] PC(c) = 115 -> EEPROM_setChipSelect(c) /\ Goto(c, 116) /\ UNCHANGED locals
         [] PC(c) = 116 -> Return(c) /\ UNCHANGED <<pad, devVars, trace, locals>>

\* line 125 is i = 0; line 127 is the test i < length with the loop body and i++
EEPROM_writeRange(c) ==
    /\ Running(c, "writeRange")
    /\ CASE PC(c) = 120 -> EEPROM_clearChipSelect(c) /\ Goto(c, 121) /\ UNCHANGED locals
         [] PC(c) = 121 -> /\ EEPROM_exchangeSpi(c, EEPROM_SPI_WRITE_DATA)
                           /\ Goto(c, 122) /\ UNCHANGED locals
         [] PC(c) = 122 -> /\ EEPROM_exchangeSpi(c, AddrHigh(args[c].addr))
                           /\ Goto(c, 123) /\ UNCHANGED locals
         [] PC(c) = 123 -> /\ EEPROM_exchangeSpi(c, AddrLow(args[c].addr))
                           /\ Goto(c, 125) /\ UNCHANGED locals
         [] PC(c) = 125 -> /\ idx' = [idx EXCEPT ![c] = 0]
                           /\ Goto(c, 127)
                           /\ UNCHANGED <<pad, devVars, trace, args, buf, buf0, retVal,
                                          wstatus, touched, plan>>
         [] PC(c) = 127 ->
              IF LoopTest(idx[c], args[c].length)
              THEN /\ EEPROM_exchangeSpi(c, DataAt(buf[c], idx[c]))
                   /\ touched' = [touched EXCEPT ![c] = @ \cup {idx[c]}]
                   /\ idx' = [idx EXCEPT ![c] = @ + 1]
                   /\ UNCHANGED <<stk, args, buf, buf0, retVal, wstatus, plan>>
              ELSE /\ Goto(c, 129)
                   /\ UNCHANGED <<pad, devVars, trace, locals>>
         [] PC(c) = 129 -> EEPROM_setChipSelect(c) /\ Goto(c, 130) /\ UNCHANGED locals
         [] PC(c) = 130 -> Return(c) /\ UNCHANGED <<pad, devVars, trace, locals>>

\* faulty variant: the test is inverted
WaitBreak_Inverted(st) == BitAnd(st, EEPROM_STATUS_BIT_RDY) # 0

\* the test that leaves the polling loop
WaitBreak(st) == BitAnd(st, EEPROM_STATUS_BIT_RDY) = 0

\* faulty variant: the loop gives up after some polls
WhileCond_Bounded(polls) == polls < MaxFreePolls

\* the condition of the polling loop, while(1): it holds after any number of polls
WhileCond(polls) == TRUE

\* line 137 calls EEPROM_readStatusReg; line 139 assigns its result to status
\* and tests it; line 145 is the delay, followed by the test of the loop
\* condition of line 134; line 147 is the return after the loop
EEPROM_wait(c) ==
    /\ Running(c, "wait")
    /\ CASE PC(c) = 137 ->
              /\ stk' = [stk EXCEPT ![c] = <<[fn |-> "readStatusReg", pc |-> 68],
                                             [Head(@) EXCEPT !.pc = 139]>> \o Tail(@)]
              /\ UNCHANGED <<pad, devVars, trace, locals>>
         [] PC(c) = 139 ->
              /\ wstatus' = [wstatus EXCEPT ![c] = retVal[c]]
              /\ IF WaitBreak(retVal[c])
                 THEN Goto(c, 147)
                 ELSE Goto(c, 145)
              /\ UNCHANGED <<pad, devVars, trace, args, buf, buf0, idx, retVal, touched, plan>>
         [] PC(c) = 145 ->
              /\ trace' = [trace EXCEPT ![c] = Append(@, Delay(1))]
              /\ IF WhileCond(NumDelays(trace[c]) + 1)
                 THEN Goto(c, 137)
                 ELSE Goto(c, 147)
              /\ UNCHANGED <<pad, devVars, locals>>
         [] PC(c) = 147 -> Return(c) /\ UNCHANGED <<pad, devVars, trace, locals>>

(***************************************************************************)
(* The caller.                                                             *)
(***************************************************************************)
EntryLine(f) ==
    CASE f = "enableWrite" -> 54
      [] f = "disableWrite" -> 61
      [] f = "readStatusReg" -> 68
      [] f = "writeStatusReg" -> 77
      [] f = "readByte" -> 85
      [] f = "writeByte" -> 96
      [] f = "readRange" -> 106
      [] f = "writeRange" -> 120
      [] f = "wait" -> 137

CallOf(f, a, d, n, b) == [fn |-> f, addr |-> a, data |-> d, length |-> n, buf |-> b]

NoArgs == [fn |-> "none", addr |-> 0, data |-> 0, length |-> 0]

\* the inputs of the free caller
AddrSet == {258, 65535}

DataSet == {165, 255}

StatusSet == {0, 132}

\* a caller's buffer of n elements, filled with 0x55
FreshBuf(n) == [k \in 1..n |-> 85]

FreeCalls ==
    {CallOf(f, 0, 0, 0, <<>>) : f \in {"enableWrite", "disableWrite", "readStatusReg", "wait"}}
    \cup {CallOf("writeStatusReg", 0, s, 0, <<>>) : s \in StatusSet}
    \cup {CallOf("readByte", a, 0, 0, <<>>) : a \in AddrSet}
    \cup {CallOf("writeByte", a, d, 0, <<>>) : a \in AddrSet, d \in DataSet}
    \cup {CallOf("readRange", a, 0, n, FreshBuf(MaxLen)) : a \in AddrSet, n \in 0..MaxLen}
    \cup UNION {{CallOf("writeRange", a, 0, n, b \o FreshBuf(1)) :
                       a \in AddrSet, b \in [1..n -> DataSet]} : n \in 0..MaxLen}

\* the caller enters a driver function
Start(c, call) ==
    /\ stk[c] = <<>>
    /\ stk' = [stk EXCEPT ![c] = <<[fn |-> call.fn, pc |-> EntryLine(call.fn)]>>]
    /\ args' = [args EXCEPT ![c] = [fn |-> call.fn, addr |-> call.addr,
                                    data |-> call.data, length |-> call.length]]
    /\ buf' = [buf EXCEPT ![c] = call.buf]
    /\ buf0' = [buf0 EXCEPT ![c] = call.buf]
    /\ idx' = [idx EXCEPT ![c] = 0]
    /\ retVal' = [retVal EXCEPT ![c] = 0]
    /\ wstatus' = [wstatus EXCEPT ![c] = 0]
    /\ trace' = [trace EXCEPT ![c] = <<>>]
    /\ touched' = [touched EXCEPT ![c] = {}]
    /\ UNCHANGED <<pad, devVars>>

\* a caller that may call any function with any input
Invoke(c) ==
    /\ plan[c].script = <<>>
    /\ \E call \in FreeCalls : Start(c, call)
    /\ UNCHANGED plan

\* a caller that makes the calls of its script, in order
ScriptInvoke(c) ==
    /\ plan[c].next <= Len(plan[c].script)
    /\ Start(c, plan[c].script[plan[c].next])
    /\ plan' = [plan EXCEPT ![c].next = @ + 1]

\* the caller of a device as it is after construction, without a script
NoPlan == [script |-> <<>>, next |-> 1, ready0 |-> TRUE, polls |-> MaxFreePolls,
           status0 |-> 0, mem0 |-> <<>>, exclusive |-> FALSE]

\* a caller with script sc of the device as it is now
PlanOf(sc, p, x) ==
    [script |-> sc, next |-> 1, ready0 |-> ~DevBusy(status), polls |-> p,
     status0 |-> status, mem0 |-> mem, exclusive |-> x]

InitDevice ==
    /\ pad = 1
    /\ frame = <<>>
    /\ listening = FALSE
    /\ status = 0
    /\ mem = <<>>

InitDriver ==
    /\ stk = [c \in Threads |-> <<>>]
    /\ args = [c \in Threads |-> NoArgs]
    /\ buf = [c \in Threads |-> <<>>]
    /\ buf0 = [c \in Threads |-> <<>>]
    /\ idx = [c \in Threads |-> 0]
    /\ retVal = [c \in Threads |-> 0]
    /\ wstatus = [c \in Threads |-> 0]
    /\ trace = [c \in Threads |-> <<>>]
    /\ touched = [c \in Threads |-> {}]

Init ==
    /\ InitDevice
    /\ InitDriver
    /\ plan = [c \in Threads |-> NoPlan]

Next ==
    \/ Invoke(1)
    \/ EEPROM_enableWrite(1)
    \/ EEPROM_disableWrite(1)
    \/ EEPROM_readStatusReg(1)
    \/ EEPROM_writeStatusReg(1)
    \/ EEPROM_readByte(1)
    \/ EEPROM_writeByte(1)
    \/ EEPROM_readRange(1)
    \/ EEPROM_writeRange(1)
    \/ EEPROM_wait(1)
    \/ DeviceWriteCycleEnd

Spec == Init /\ [][Next]_vars

(***************************************************************************)
(* Scripted callers: a write followed by a wait and a read of the same     *)
(* cells, on a device that holds any protection level and is ready or      *)
(* still in the write cycle of an earlier write.                           *)
(***************************************************************************)
Call0(f) == CallOf(f, 0, 0, 0, <<>>)

ByteRoundTrip(a, v) ==
    <<Call0("enableWrite"), CallOf("writeByte", a, v, 0, <<>>),
      Call0("wait"), CallOf("readByte", a, 0, 0, <<>>)>>

RangeRoundTrip(a, b, n) ==
    <<Call0("enableWrite"), CallOf("writeRange", a, 0, n, b),
      Call0("wait"), CallOf("readRange", a, 0, n, FreshBuf(Len(b)))>>

RTAddrSet == {0, 258, 3000, 4095, 65535}

RTDataSet == {0, 90, 165, 255}

RangeLens == {0, 1, 16, 256}

\* a caller's buffer of n + 1 bytes, no two neighbours equal
Pattern(p, n) == [k \in 1..(n + 1) |-> (p * k + 3) % 256]

RTScripts ==
    {ByteRoundTrip(a, v) : a \in RTAddrSet, v \in RTDataSet}
    \cup {RangeRoundTrip(a, Pattern(p, n), n) : a \in RTAddrSet, p \in {1, 7}, n \in RangeLens}

\* the status register when the script begins: ready with WEN, BP and WPEN of
\* any value, or busy with a write
RTStatusSet == {0, 2, 4, 8, 12, 132, 3, 7}

\* the cells a script addresses
ScriptCells(sc) ==
    {(sc[2].addr + i) % MemSize : i \in 0..(IF sc[2].fn = "writeByte" THEN 0 ELSE sc[2].length)}

InitRoundTrip ==
    /\ pad = 1
    /\ frame = <<>>
    /\ listening = FALSE
    /\ status \in RTStatusSet
    /\ InitDriver
    /\ \E sc \in RTScripts :
         /\ mem \in {<<>>, [a \in ScriptCells(sc) |-> 60]}
         /\ plan = [c \in Threads |->
                      PlanOf(IF c = 1 THEN sc ELSE <<>>, MaxFreePolls, FALSE)]

NextRoundTrip ==
    \/ ScriptInvoke(1)
    \/ EEPROM_enableWrite(1)
    \/ EEPROM_readStatusReg(1)
    \/ EEPROM_readByte(1)
    \/ EEPROM_writeByte(1)
    \/ EEPROM_readRange(1)
    \/ EEPROM_writeRange(1)
    \/ EEPROM_wait(1)
    \/ DeviceWriteCycleEnd

SpecRoundTrip == InitRoundTrip /\ [][NextRoundTrip]_vars

(***************************************************************************)
(* A scripted caller that waits for a write cycle which may last up to     *)
(* MaxBusyPolls polls.                                                     *)
(***************************************************************************)
WaitScripts ==
    {<<Call0("enableWrite"), CallOf("writeByte", a, v, 0, <<>>), Call0("wait")>> :
        a \in AddrSet, v \in DataSet}
    \cup {<<Call0("wait")>>}

InitWait ==
    /\ InitDevice
    /\ InitDriver
    /\ \E sc \in WaitScripts :
         plan = [c \in Threads |->
                   PlanOf(IF c = 1 THEN sc ELSE <<>>,
                          IF c = 1 THEN MaxBusyPolls ELSE MaxFreePolls, FALSE)]

NextWait ==
    \/ ScriptInvoke(1)
    \/ EEPROM_enableWrite(1)
    \/ EEPROM_readStatusReg(1)
    \/ EEPROM_writeByte(1)
    \/ EEPROM_wait(1)
    \/ DeviceWriteCycleEnd

SpecWait == InitWait /\ [][NextWait]_vars

\* the calling thread's steps
WaitCallerRuns ==
    \/ ScriptInvoke(1)
    \/ EEPROM_enableWrite(1)
    \/ EEPROM_readStatusReg(1)
    \/ EEPROM_writeByte(1)
    \/ EEPROM_wait(1)

\* the same caller when the calling thread keeps running and the device's
\* write cycle, once begun, ends
SpecWaitFair ==
    /\ InitWait
    /\ [][NextWait]_vars
    /\ WF_vars(WaitCallerRuns)
    /\ WF_vars(DeviceWriteCycleEnd)

(***************************************************************************)
(* A caller that reads or writes one byte at any 16-bit address.           *)
(***************************************************************************)
AllAddrs == 0..65535

InitAddr ==
    /\ InitDevice
    /\ InitDriver
    /\ \E a \in AllAddrs :
         \E sc \in {<<CallOf("readByte", a, 0, 0, <<>>)>>,
                    <<CallOf("writeByte", a, 165, 0, <<>>)>>} :
           plan = [c \in Threads |->
                     PlanOf(IF c = 1 THEN sc ELSE <<>>, MaxFreePolls, FALSE)]

NextAddr ==
    \/ ScriptInvoke(1)
    \/ EEPROM_readByte(1)
    \/ EEPROM_writeByte(1)

SpecAddr == InitAddr /\ [][NextAddr]_vars

(***************************************************************************)
(* A caller that reads the status register, which holds any byte.          *)
(***************************************************************************)
InitStatus ==
    /\ pad = 1
    /\ frame = <<>>
    /\ listening = FALSE
    /\ status \in 0..255
    /\ mem = <<>>
    /\ InitDriver
    /\ plan = [c \in Threads |->
                 PlanOf(IF c = 1 THEN <<Call0("readStatusReg")>> ELSE <<>>,
                        MaxFreePolls, FALSE)]

NextStatus ==
    \/ ScriptInvoke(1)
    \/ EEPROM_readStatusReg(1)
    \/ DeviceWriteCycleEnd

SpecStatus == InitStatus /\ [][NextStatus]_vars

(***************************************************************************)
(* A caller that makes one call, of any function with any input, to a      *)
(* device in any state.                                                    *)
(***************************************************************************)
\* the status register at the call: ready or busy, the write-enable latch set
\* or not, every protection level, the protection latch set or not
OneCallStatusSet == {0, 2, 3, 4, 6, 10, 14, 130, 132}

\* the cells a call can address
CallCells(call) == {(call.addr + i) % MemSize : i \in 0..MaxLen}

\* the content of cell a before the call, when it is not erased
Stored(a) == 16 + (a % 7)

InitOneCall ==
    /\ pad = 1
    /\ frame = <<>>
    /\ listening = FALSE
    /\ status \in OneCallStatusSet
    /\ InitDriver
    /\ \E call \in FreeCalls :
         /\ mem \in {<<>>, [a \in CallCells(call) |-> Stored(a)]}
         /\ plan = [c \in Threads |->
                      PlanOf(IF c = 1 THEN <<call>> ELSE <<>>, MaxFreePolls, FALSE)]

NextOneCall ==
    \/ ScriptInvoke(1)
    \/ EEPROM_enableWrite(1)
    \/ EEPROM_disableWrite(1)
    \/ EEPROM_readStatusReg(1)
    \/ EEPROM_writeStatusReg(1)
    \/ EEPROM_readByte(1)
    \/ EEPROM_writeByte(1)
    \/ EEPROM_readRange(1)
    \/ EEPROM_writeRange(1)
    \/ EEPROM_wait(1)
    \/ DeviceWriteCycleEnd

SpecOneCall == InitOneCall /\ [][NextOneCall]_vars

(***************************************************************************)
(* A caller that waits for a device which reports RDY = 1 for ever: its    *)
(* write cycle never ends. The calling thread keeps running.               *)
(***************************************************************************)
StuckStatusSet == {1, 3, 15, 143, 255}

InitStuck ==
    /\ pad = 1
    /\ frame = <<>>
    /\ listening = FALSE
    /\ status \in StuckStatusSet
    /\ mem = <<>>
    /\ InitDriver
    /\ plan = [c \in Threads |->
                 PlanOf(IF c = 1 THEN <<Call0("wait")>> ELSE <<>>,
                        IF c = 1 THEN MaxBusyPolls ELSE MaxFreePolls, FALSE)]

NextStuck ==
    \/ ScriptInvoke(1)
    \/ EEPROM_readStatusReg(1)
    \/ EEPROM_wait(1)

SpecStuck == InitStuck /\ [][NextStuck]_vars /\ WF_vars(NextStuck)

(***************************************************************************)
(* Two callers on the same bus. The driver takes no lock; the callers      *)
(* either take the bus for the length of each whole operation (an external *)
(* mutual exclusion) or call the driver whenever they like. The scheduler  *)
(* may switch between them after any statement.                            *)
(***************************************************************************)
\* a caller enters its next operation; one that takes the bus for itself does so
\* when no other caller is inside an operation
SharedInvoke(c) ==
    /\ plan[c].exclusive => \A d \in Threads \ {c} : stk[d] = <<>>
    /\ ScriptInvoke(c)

SharedScripts(c) ==
    IF c = 1
    THEN {<<Call0("enableWrite"), CallOf("writeByte", 258, 165, 0, <<>>)>>}
    ELSE {<<CallOf("readByte", 258, 0, 0, <<>>)>>,
          <<Call0("readStatusReg")>>,
          <<Call0("enableWrite"), CallOf("writeByte", 65535, 90, 0, <<>>)>>}

InitShared ==
    /\ InitDevice
    /\ InitDriver
    /\ \E x \in BOOLEAN :
         \E sc \in [Threads -> UNION {SharedScripts(c) : c \in Threads}] :
           /\ \A c \in Threads : sc[c] \in SharedScripts(c)
           /\ plan = [c \in Threads |-> PlanOf(sc[c], MaxFreePolls, x)]

NextShared ==
    \/ \E c \in Threads : SharedInvoke(c)
    \/ \E c \in Threads : EEPROM_enableWrite(c)
    \/ \E c \in Threads : EEPROM_readStatusReg(c)
    \/ \E c \in Threads : EEPROM_readByte(c)
    \/ \E c \in Threads : EEPROM_writeByte(c)
    \/ DeviceWriteCycleEnd

SpecShared == InitShared /\ [][NextShared]_vars

(***************************************************************************)
(* Scripted callers that write without the write-enable latch: a second    *)
(* write after a completed one, and a write after disableWrite.            *)
(***************************************************************************)
WriteTwice(a, v1, v2) ==
    <<Call0("enableWrite"), CallOf("writeByte", a, v1, 0, <<>>), Call0("wait"),
      CallOf("writeByte", a, v2, 0, <<>>), CallOf("readByte", a, 0, 0, <<>>)>>

WriteDisabled(a, v) ==
    <<Call0("enableWrite"), Call0("disableWrite"),
      CallOf("writeByte", a, v, 0, <<>>), CallOf("readByte", a, 0, 0, <<>>)>>

LatchAddrSet == {258, 3000, 65535}

\* the cells the data operations of a script address
AddressedCells(sc) ==
    UNION {{(sc[k].addr + i) % MemSize : i \in 0..sc[k].length} :
             k \in {j \in 1..Len(sc) :
                      sc[j].fn \in {"readByte", "writeByte", "readRange", "writeRange"}}}

LatchScripts ==
    {WriteTwice(a, v[1], v[2]) : a \in LatchAddrSet, v \in {<<165, 90>>, <<255, 0>>}}
    \cup {WriteDisabled(a, v) : a \in LatchAddrSet, v \in {165, 0}}

InitLatch ==
    /\ pad = 1
    /\ frame = <<>>
    /\ listening = FALSE
    /\ status \in RTStatusSet
    /\ InitDriver
    /\ \E sc \in LatchScripts :
         /\ mem \in {<<>>, [a \in AddressedCells(sc) |-> Stored(a)]}
         /\ plan = [c \in Threads |->
                      PlanOf(IF c = 1 THEN sc ELSE <<>>, MaxFreePolls, FALSE)]

NextLatch ==
    \/ ScriptInvoke(1)
    \/ EEPROM_enableWrite(1)
    \/ EEPROM_disableWrite(1)
    \/ EEPROM_readStatusReg(1)
    \/ EEPROM_readByte(1)
    \/ EEPROM_writeByte(1)
    \/ EEPROM_wait(1)
    \/ DeviceWriteCycleEnd

SpecLatch == InitLatch /\ [][NextLatch]_vars

(***************************************************************************)
(* Scripted callers that set a block-protection level and then write one   *)
(* byte or a range, wait, and read the cells back.                         *)
(***************************************************************************)
ProtectThenWrite(level, write, read) ==
    <<Call0("enableWrite"),
      CallOf("writeStatusReg", 0, StatusByteOfBP(level), 0, <<>>), Call0("wait"),
      Call0("enableWrite"), write, Call0("wait"), read>>

ProtectLevels ==
    {BlockProtection_None, BlockProtection_Quarter,
     BlockProtection_Half, BlockProtection_WholeMemory}

\* the first and the last cell of the array and the cells on either side of
\* the two inner boundaries
ProtectAddrSet == {0, 2047, 2048, 3071, 3072, 4095}

ProtectScripts ==
    {ProtectThenWrite(l, CallOf("writeByte", a, 165, 0, <<>>),
                         CallOf("readByte", a, 0, 0, <<>>)) :
        l \in ProtectLevels, a \in ProtectAddrSet}
    \cup {ProtectThenWrite(l, CallOf("writeRange", a, 0, MaxLen, Pattern(7, MaxLen)),
                              CallOf("readRange", a, 0, MaxLen, FreshBuf(MaxLen))) :
             l \in ProtectLevels, a \in {2047, 3071}}

\* the status register when the script begins: ready without protection, with
\* a protection level, with the protection latch, or busy
ProtectStatusSet == {0, 8, 12, 132, 3}

InitProtect ==
    /\ pad = 1
    /\ frame = <<>>
    /\ listening = FALSE
    /\ status \in ProtectStatusSet
    /\ InitDriver
    /\ \E sc \in ProtectScripts :
         /\ mem \in {<<>>, [a \in AddressedCells(sc) |-> Stored(a)]}
         /\ plan = [c \in Threads |->
                      PlanOf(IF c = 1 THEN sc ELSE <<>>, MaxFreePolls, FALSE)]

NextProtect ==
    \/ ScriptInvoke(1)
    \/ EEPROM_enableWrite(1)
    \/ EEPROM_readStatusReg(1)
    \/ EEPROM_writeStatusReg(1)
    \/ EEPROM_readByte(1)
    \/ EEPROM_writeByte(1)
    \/ EEPROM_readRange(1)
    \/ EEPROM_writeRange(1)
    \/ EEPROM_wait(1)
    \/ DeviceWriteCycleEnd

SpecProtect == InitProtect /\ [][NextProtect]_vars

(***************************************************************************)
(* Two callers that take turns on a device in any state: the first makes   *)
(* one byte operation, the second the range operation of length 1 with the *)
(* same address and the same byte, in either order.                        *)
(***************************************************************************)
\* the byte operation and the range operation of length 1 that goes with it
PairOf(call) ==
    IF call.fn = "readByte"
    THEN CallOf("readRange", call.addr, 0, 1, FreshBuf(MaxLen))
    ELSE CallOf("writeRange", call.addr, 0, 1, <<call.data>> \o FreshBuf(1))

ByteCalls == {call \in FreeCalls : call.fn \in {"readByte", "writeByte"}}

InitPair ==
    /\ pad = 1
    /\ frame = <<>>
    /\ listening = FALSE
    /\ status \in OneCallStatusSet
    /\ InitDriver
    /\ \E call \in ByteCalls :
         /\ mem \in {<<>>, [a \in CallCells(call) |-> Stored(a)]}
         /\ plan = [c \in Threads |->
                      PlanOf(IF c = 1 THEN <<call>> ELSE <<PairOf(call)>>,
                             MaxFreePolls, TRUE)]

NextPair ==
    \/ \E c \in Threads : SharedInvoke(c)
    \/ EEPROM_readByte(1)
    \/ EEPROM_writeByte(1)
    \/ EEPROM_readRange(2)
    \/ EEPROM_writeRange(2)
    \/ DeviceWriteCycleEnd

SpecPair == InitPair /\ [][NextPair]_vars

(***************************************************************************)
(* Reading the trace of a call.                                            *)
(***************************************************************************)
IsXchg(e) == e[1] = "x"

IsStatusPoll(e) == e[1] = "x" /\ e[2] = 0

\* the bytes sent, and the bytes received, in the order of the exchanges
TxBytes(t) == LET xs == SelectSeq(t, IsXchg) IN [k \in 1..Len(xs) |-> xs[k][2]]

RxBytes(t) == LET xs == SelectSeq(t, IsXchg) IN [k \in 1..Len(xs) |-> xs[k][3]]

\* the thread's call has returned to the caller
Returned(c) == stk[c] = <<>> /\ args[c].fn # "none"

ReturnedFrom(c, f) == stk[c] = <<>> /\ args[c].fn = f

\* the opcode the command table documents for each operation
DocumentedOpcode(f) ==
    CASE f = "enableWrite" -> 6
      [] f = "disableWrite" -> 4
      [] f \in {"readStatusReg", "wait"} -> 5
      [] f = "writeStatusReg" -> 1
      [] f \in {"readByte", "readRange"} -> 3
      [] f \in {"writeByte", "writeRange"} -> 2

Zeros(n) == [k \in 1..n |-> 0]

\* the scripted caller has made its last call
ScriptDone(c) == plan[c].next > Len(plan[c].script)

IsByteScript(sc) == Len(sc) = 4 /\ sc[2].fn = "writeByte"

IsRangeScript(sc) == Len(sc) = 4 /\ sc[2].fn = "writeRange"

\* no cell of the n cells from address a on is block-protected
Writable(a, n) ==
    \A i \in 0..(n - 1) : ~IsProtected(DevProtection(status), (a + i) % MemSize)

\* the status bytes a call has read, and the frames it has opened
StatusReads(t) == LET xs == SelectSeq(t, IsStatusPoll) IN [k \in 1..Len(xs) |-> xs[k][3]]

NumFrames(t) == Cardinality({k \in 1..Len(t) : t[k] = CsLow})

(***************************************************************************)
(* C1. Every operation, and every status poll of EEPROM_wait, is one       *)
(* frame: the pad is cleared once, then come only byte exchanges, the      *)
(* first of them the operation's documented opcode, then the pad is set    *)
(* once; no byte is exchanged while the pad is set; only EEPROM_wait       *)
(* opens a second frame, and it does so after its delay.                   *)
(***************************************************************************)
FrameShape ==
    /\ \A c \in Threads :
         LET t == trace[c]
             f == args[c].fn
         IN /\ \A k \in 1..Len(t) :
                 /\ t[k] = CsLow =>
                       /\ k = 1 \/ (f = "wait" /\ t[k - 1] = Delay(1))
                       /\ k < Len(t) => /\ IsXchg(t[k + 1])
                                        /\ t[k + 1][2] = DocumentedOpcode(f)
                 /\ IsXchg(t[k]) => k > 1 /\ (t[k - 1] = CsLow \/ IsXchg(t[k - 1]))
                 /\ t[k] = CsHigh => k > 1 /\ IsXchg(t[k - 1])
                 /\ t[k][1] = "delay" => k > 1 /\ t[k - 1] = CsHigh /\ f = "wait"
            /\ Returned(c) => Len(t) >= 3 /\ t[Len(t)] = CsHigh
    /\ pad = 0 <=> \E c \in Threads :
                      /\ trace[c] # <<>>
                      /\ LET e == trace[c][Len(trace[c])] IN e = CsLow \/ IsXchg(e)

\* EEPROM_wait has returned after polling a busy device more than once
FrameShapeWitness ==
    /\ ReturnedFrom(1, "wait")
    /\ NumDelays(trace[1]) = MaxFreePolls
    /\ Len(SelectSeq(trace[1], IsXchg)) = 2 * (MaxFreePolls + 1)

(***************************************************************************)
(* C2. The bytes sent inside each frame are those of the command table,    *)
(* and the value returned is the byte received in the last exchange.       *)
(***************************************************************************)
CommandTable ==
    \A c \in Threads :
      Returned(c) =>
        LET tx == TxBytes(trace[c])
            rx == RxBytes(trace[c])
            a  == args[c].addr
            hi == a \div 256
            lo == a % 256
            L  == args[c].length
        IN CASE args[c].fn = "readStatusReg" ->
                  tx = <<5, 0>> /\ retVal[c] = rx[2]
             [] args[c].fn = "writeStatusReg" ->
                  tx = <<1, args[c].data>>
             [] args[c].fn = "readByte" ->
                  tx = <<3, hi, lo, 0>> /\ retVal[c] = rx[4]
             [] args[c].fn = "writeByte" ->
                  tx = <<2, hi, lo, args[c].data>>
             [] args[c].fn = "readRange" ->
                  tx = <<3, hi, lo>> \o Zeros(L) /\ Len(tx) = 3 + L
             [] args[c].fn = "writeRange" ->
                  tx = <<2, hi, lo>> \o SubSeq(buf0[c], 1, L) /\ Len(tx) = 3 + L
             [] OTHER -> TRUE

\* a range write of the longest length has returned, its address bytes different
CommandTableWitness ==
    /\ ReturnedFrom(1, "writeRange")
    /\ args[1].length = MaxLen
    /\ args[1].addr = 258
    /\ buf0[1][1] # buf0[1][2]

(***************************************************************************)
(* C6. The pad is set whenever no operation is in progress: every          *)
(* operation has set it by the time it returns.                            *)
(***************************************************************************)
ChipSelectReleased ==
    (\A c \in Threads : stk[c] = <<>>) => pad = 1

\* a range read of the longest length has just returned
ChipSelectReleasedWitness ==
    /\ ReturnedFrom(1, "readRange")
    /\ args[1].length = MaxLen
    /\ Len(trace[1]) = MaxLen + 5

(***************************************************************************)
(* C7. enableWrite and disableWrite each exchange exactly one byte, 0x06   *)
(* and 0x04, in exactly one clear/set cycle of the pad.                    *)
(***************************************************************************)
WriteLatchFrames ==
    \A c \in Threads :
      /\ ReturnedFrom(c, "enableWrite") =>
           /\ Len(trace[c]) = 3
           /\ trace[c][1] = CsLow
           /\ IsXchg(trace[c][2]) /\ trace[c][2][2] = 6
           /\ trace[c][3] = CsHigh
      /\ ReturnedFrom(c, "disableWrite") =>
           /\ Len(trace[c]) = 3
           /\ trace[c][1] = CsLow
           /\ IsXchg(trace[c][2]) /\ trace[c][2][2] = 4
           /\ trace[c][3] = CsHigh

\* disableWrite has returned and has cleared the write-enable latch
WriteLatchFramesWitness ==
    /\ ReturnedFrom(1, "disableWrite")
    /\ ~DevWriteEnabled(status)
    /\ mem # <<>>

(***************************************************************************)
(* C10. A range operation of length 0 clears the pad, exchanges exactly    *)
(* the opcode and the two address bytes, sets the pad and returns, and     *)
(* accesses no element of the caller's buffer.                             *)
(***************************************************************************)
ZeroLengthRange ==
    \A c \in Threads :
      (Returned(c) /\ args[c].fn \in {"readRange", "writeRange"} /\ args[c].length = 0) =>
        /\ Len(trace[c]) = 5
        /\ trace[c][1] = CsLow
        /\ TxBytes(trace[c]) = <<DocumentedOpcode(args[c].fn),
                                 args[c].addr \div 256, args[c].addr % 256>>
        /\ trace[c][5] = CsHigh
        /\ touched[c] = {}
        /\ buf[c] = buf0[c]

\* a range write of length 0 has returned, with a buffer that holds an element
ZeroLengthRangeWitness ==
    /\ ReturnedFrom(1, "writeRange")
    /\ args[1].length = 0
    /\ Len(buf0[1]) > 0
    /\ DevWriteEnabled(status)

(***************************************************************************)
(* C3. Byte round trip, as amended: enableWrite; writeByte(a, v); wait;    *)
(* readByte(a) makes readByte return v, provided the device is ready when  *)
(* enableWrite is called and a is outside the block-protected range.       *)
(***************************************************************************)
ByteRoundTripHolds ==
    LET sc == plan[1].script
    IN (IsByteScript(sc) /\ ScriptDone(1) /\ ReturnedFrom(1, "readByte")) =>
         ((plan[1].ready0 /\ Writable(sc[2].addr, 1)) => retVal[1] = sc[2].data)

\* the byte written over a different one, through an address above the array,
\* has been read back
ByteRoundTripWitness ==
    LET sc == plan[1].script
    IN /\ IsByteScript(sc) /\ ScriptDone(1) /\ ReturnedFrom(1, "readByte")
       /\ sc[2].addr = 65535 /\ sc[2].data = 165
       /\ plan[1].ready0 /\ Writable(sc[2].addr, 1)
       /\ retVal[1] = 165

\* C3 as stated: the round trip returns v for every address a and byte v
ByteRoundTripAlways ==
    LET sc == plan[1].script
    IN (IsByteScript(sc) /\ ScriptDone(1) /\ ReturnedFrom(1, "readByte")) =>
         retVal[1] = sc[2].data

(***************************************************************************)
(* C4. Range round trip, as amended: enableWrite; writeRange(a, buf, N);   *)
(* wait; readRange(a, out, N) leaves out[0..N-1] equal to buf[0..N-1], for *)
(* N in {0, 1, 16, 256}, provided the device is ready when enableWrite is  *)
(* called and no cell of the range is block-protected.                     *)
(***************************************************************************)
RangeRoundTripHolds ==
    LET sc == plan[1].script
        N  == sc[2].length
    IN (IsRangeScript(sc) /\ ScriptDone(1) /\ ReturnedFrom(1, "readRange")) =>
         ((plan[1].ready0 /\ Writable(sc[2].addr, N)) =>
            /\ Len(buf[1]) = Len(sc[2].buf)
            /\ \A k \in 1..N : buf[1][k] = sc[2].buf[k])

\* 256 bytes written across the end of the array have been read back
RangeRoundTripWitness ==
    LET sc == plan[1].script
    IN /\ IsRangeScript(sc) /\ ScriptDone(1) /\ ReturnedFrom(1, "readRange")
       /\ sc[2].length = 256 /\ sc[2].addr = 4095
       /\ plan[1].ready0 /\ Writable(sc[2].addr, 256)
       /\ 0 \in DOMAIN mem
       /\ \A k \in 1..256 : buf[1][k] = sc[2].buf[k]

\* C4 as stated: the buffer read equals the buffer written for every start
\* address a
RangeRoundTripAlways ==
    LET sc == plan[1].script
        N  == sc[2].length
    IN (IsRangeScript(sc) /\ ScriptDone(1) /\ ReturnedFrom(1, "readRange")) =>
         \A k \in 1..N : buf[1][k] = sc[2].buf[k]

(***************************************************************************)
(* C5. EEPROM_wait polls until a status read shows RDY = 0: every status   *)
(* read but the last showed RDY = 1, and when it returns after k such      *)
(* reads it has made k + 1 read-status transactions, the last showing      *)
(* RDY = 0.                                                                *)
(***************************************************************************)
PollerCount ==
    \A c \in Threads :
      args[c].fn = "wait" =>
        LET R == StatusReads(trace[c])
            k == Cardinality({j \in 1..Len(R) : R[j] % 2 = 1})
        IN /\ \A j \in 1..(Len(R) - 1) : R[j] % 2 = 1
           /\ Returned(c) => /\ Len(R) >= 1
                             /\ R[Len(R)] % 2 = 0
                             /\ NumFrames(trace[c]) = k + 1
                             /\ Len(R) = k + 1

\* EEPROM_wait has returned after MaxBusyPolls polls of a busy device
PollerCountWitness ==
    /\ ReturnedFrom(1, "wait")
    /\ NumFrames(trace[1]) = MaxBusyPolls + 1
    /\ Len(StatusReads(trace[1])) = MaxBusyPolls + 1

(***************************************************************************)
(* C8. Address splitting: for every 16-bit address a the driver sends      *)
(* a >> 8 and then a & 0xFF after the opcode; both are in 0..255 and       *)
(* (high << 8) | low = a.                                                  *)
(***************************************************************************)
AddressSplit ==
    \A c \in Threads :
      args[c].fn \in {"readByte", "writeByte"} =>
        LET tx == TxBytes(trace[c])
            a  == args[c].addr
        IN /\ Len(tx) >= 2 => tx[2] \in 0..255 /\ tx[2] = a \div 256
           /\ Len(tx) >= 3 => /\ tx[3] \in 0..255 /\ tx[3] = a % 256
                              /\ BitOr(ShiftLeft(tx[2], 8), tx[3]) = a
                              /\ tx[2] * 256 + tx[3] = a
           /\ Returned(c) => Len(tx) = 4

\* a byte has been written at an address whose two bytes differ and whose
\* high byte has its top bit set
AddressSplitWitness ==
    /\ ReturnedFrom(1, "writeByte")
    /\ args[1].addr = 43981
    /\ TxBytes(trace[1]) = <<2, 171, 205, 165>>

(***************************************************************************)
(* C9. Status decoding: in every status byte RDY is bit 0 (mask 0x01), WEN *)
(* is bit 1 (mask 0x02), BP is bits 2-3 (mask 0x0C; 0..3 are None,         *)
(* Quarter, Half, WholeMemory) and WPEN is bit 7 (mask 0x80); 0b10000101   *)
(* decodes to RDY = 1, WEN = 0, BP = Quarter, WPEN = 1.                    *)
(***************************************************************************)
StatusDecoding ==
    \A c \in Threads :
      ReturnedFrom(c, "readStatusReg") =>
        LET r == retVal[c]
            B == EEPROM_StatusRegister(r)
        IN /\ r \in 0..255
           /\ BitAnd(r, EEPROM_STATUS_BIT_RDY) = r % 2
           /\ BitAnd(r, EEPROM_STATUS_BIT_WEN) = 2 * ((r \div 2) % 2)
           /\ BitAnd(r, EEPROM_STATUS_BIT_BP) = 4 * ((r \div 4) % 4)
           /\ BitAnd(r, EEPROM_STATUS_BIT_WPEN) = 128 * (r \div 128)
           /\ B.RDY = r % 2
           /\ B.WEN = (r \div 2) % 2
           /\ B.BP = (r \div 4) % 4
           /\ B.BP = ShiftRight(BitAnd(r, EEPROM_STATUS_BIT_BP), 2)
           /\ B.WPEN = r \div 128
           /\ <<BlockProtection_None, BlockProtection_Quarter,
                BlockProtection_Half, BlockProtection_WholeMemory>> = <<0, 1, 2, 3>>
           /\ r = 133 => /\ B.RDY = 1 /\ B.WEN = 0 /\ B.WPEN = 1
                         /\ B.BP = BlockProtection_Quarter
                         /\ BitAnd(r, EEPROM_STATUS_BIT_RDY) # 0
                         /\ BitAnd(r, EEPROM_STATUS_BIT_WEN) = 0
                         /\ BitAnd(r, EEPROM_STATUS_BIT_WPEN) # 0

\* the status byte 0b10000101 has been read
StatusDecodingWitness ==
    /\ ReturnedFrom(1, "readStatusReg")
    /\ retVal[1] = 133
    /\ RxBytes(trace[1])[2] = 133

\* the write-inducing operations
WriteOps == {"writeByte", "writeRange", "writeStatusReg"}

\* what the driver does to the pad and puts on the bus: a trace without the
\* bytes received
Emitted(t) == [k \in 1..Len(t) |-> <<t[k][1], t[k][2]>>]

\* one frame that carries the bytes bs
FrameOf(bs) == <<<<"cs", 0>>>> \o [k \in 1..Len(bs) |-> <<"x", bs[k]>>] \o <<<<"cs", 1>>>>

\* the bytes of the command table for a write-inducing call
WriteBytes(a, b) ==
    CASE a.fn = "writeStatusReg" -> <<1, a.data>>
      [] a.fn = "writeByte" -> <<2, a.addr \div 256, a.addr % 256, a.data>>
      [] a.fn = "writeRange" -> <<2, a.addr \div 256, a.addr % 256>> \o SubSeq(b, 1, a.length)

IsPrefix(s, t) == Len(s) <= Len(t) /\ s = SubSeq(t, 1, Len(s))

(***************************************************************************)
(* C11. writeByte, writeRange and writeStatusReg check nothing: whatever   *)
(* WEN, BP and RDY are at the call, the pad and bus events are the one     *)
(* frame their arguments determine, no status read among them; when WEN    *)
(* is 0 at the call the device keeps its memory and its status register,   *)
(* and the function returns, as always, without a value.                   *)
(***************************************************************************)
NoWriteChecking ==
    \A c \in Threads :
      args[c].fn \in WriteOps =>
        LET want == FrameOf(WriteBytes(args[c], buf0[c]))
            got  == Emitted(trace[c])
        IN /\ IsPrefix(got, want)
           /\ Returned(c) => got = want
           /\ \A k \in 1..Len(stk[c]) : stk[c][k].fn = args[c].fn
           /\ Len(got) >= 2 => got[2] # <<"x", 5>>
           /\ retVal[c] = 0
           /\ ~DevWriteEnabled(plan[c].status0) =>
                 mem = plan[c].mem0 /\ status = plan[c].status0

\* a byte was written to an unprotected cell of a ready device whose WEN is 0:
\* the function has returned and the cell holds what it held
NoWriteCheckingWitness ==
    /\ ReturnedFrom(1, "writeByte")
    /\ args[1].addr = 258 /\ args[1].data = 165
    /\ plan[1].status0 = 0
    /\ MemRead(plan[1].mem0, 258) = Stored(258)
    /\ MemRead(mem, 258) = Stored(258)

(***************************************************************************)
(* C12. EEPROM_wait has no timeout and no iteration bound: while every     *)
(* status read shows RDY = 1 it does not return, every read-status frame   *)
(* it has completed is followed by the delay of 1 microsecond and then by  *)
(* the next frame, and it goes on to any number of polls (in the model, to *)
(* MaxBusyPolls, where the trace ends).                                    *)
(***************************************************************************)
WaitNeverReturns ==
    /\ [](\A c \in Threads :
            args[c].fn = "wait" =>
              LET t == trace[c]
              IN /\ stk[c] # <<>>
                 /\ \A j \in 1..Len(StatusReads(t)) : StatusReads(t)[j] % 2 = 1
                 /\ \A k \in 1..Len(t) :
                      /\ (t[k] = CsHigh /\ k < Len(t)) => t[k + 1] = Delay(1)
                      /\ t[k][1] = "delay" => t[k] = Delay(1)
                      /\ (t[k][1] = "delay" /\ k < Len(t)) => t[k + 1] = CsLow
                 /\ NumDelays(t) \in {NumFrames(t), NumFrames(t) - 1})
    /\ <>(NumDelays(trace[1]) = MaxBusyPolls)

\* EEPROM_wait is still polling after MaxBusyPolls status reads and delays
WaitNeverReturnsWitness ==
    /\ Running(1, "readStatusReg")
    /\ args[1].fn = "wait"
    /\ Len(StatusReads(trace[1])) = MaxBusyPolls
    /\ NumDelays(trace[1]) = MaxBusyPolls
    /\ NumFrames(trace[1]) = MaxBusyPolls + 1

\* the caller is between the statement that clears the pad and the one that
\* sets it
InFrame(c) ==
    /\ stk[c] # <<>>
    /\ trace[c] # <<>>
    /\ LET e == trace[c][Len(trace[c])] IN e = CsLow \/ IsXchg(e)

\* the bytes the caller has sent since it last cleared the pad
SentInFrame(t) ==
    LET from == CHOOSE k \in 1..Len(t) :
                    t[k] = CsLow /\ \A j \in (k + 1)..Len(t) : t[j] # CsLow
    IN [j \in 1..(Len(t) - from) |-> ToUint8(t[from + j][2])]

\* all callers take the bus for the length of each operation
Serialized == \A c \in Threads : plan[c].exclusive

(***************************************************************************)
(* C13. The driver has no lock of its own. When the callers serialize      *)
(* whole operations, the frame the device sees between two changes of the  *)
(* pad holds the bytes of exactly one operation of one caller, and the pad *)
(* is set whenever no caller is inside a frame. (Without the mutual        *)
(* exclusion a frame with bytes of two operations is reachable.)           *)
(***************************************************************************)
FramesWhole ==
    Serialized =>
      /\ pad = 0 => \E c \in Threads :
                       /\ InFrame(c)
                       /\ \A d \in Threads \ {c} : stk[d] = <<>>
                       /\ frame = SentInFrame(trace[c])
                       /\ IsPrefix(frame, CASE args[c].fn = "writeByte" ->
                                               WriteBytes(args[c], <<>>)
                                            [] args[c].fn = "readByte" ->
                                               <<3, args[c].addr \div 256,
                                                 args[c].addr % 256, 0>>
                                            [] args[c].fn = "enableWrite" -> <<6>>
                                            [] args[c].fn = "readStatusReg" -> <<5, 0>>)
      /\ pad = 1 => \A c \in Threads : ~InFrame(c)
      /\ Cardinality({c \in Threads : stk[c] # <<>>}) <= 1

\* without mutual exclusion: the device is selected and its frame holds the
\* opcode and an address byte of one caller's writeByte followed by the opcode
\* of the other caller's readByte
FramesWholeWitness ==
    /\ ~Serialized
    /\ pad = 0
    /\ frame = <<2, 1, 3>>
    /\ Running(1, "writeByte") /\ SentInFrame(trace[1]) = <<2, 1>>
    /\ Running(2, "readByte") /\ SentInFrame(trace[2]) = <<3>>

(***************************************************************************)
(* C14. If the device's write cycle ends (and no new write is issued),     *)
(* every call of EEPROM_wait returns, and the last status byte it read,    *)
(* the one it tested, has RDY = 0.                                         *)
(***************************************************************************)
WaitReturns ==
    (args[1].fn = "wait" /\ stk[1] # <<>>)
      ~> /\ ReturnedFrom(1, "wait")
         /\ wstatus[1] % 2 = 0
         /\ StatusReads(trace[1]) # <<>>
         /\ StatusReads(trace[1])[Len(StatusReads(trace[1]))] = wstatus[1]

\* EEPROM_wait has returned after the write cycle of a writeByte ended during
\* its third delay
WaitReturnsWitness ==
    /\ ReturnedFrom(1, "wait")
    /\ Len(plan[1].script) = 3
    /\ NumDelays(trace[1]) = 3
    /\ StatusReads(trace[1]) = <<3, 3, 3, 0>>
    /\ wstatus[1] = 0

\* call number n of the caller's script has returned and the next is not made
After(c, n) == plan[c].next = n + 1 /\ stk[c] = <<>>

IsTwiceScript(sc) == Len(sc) = 5 /\ sc[4].fn = "writeByte"

IsDisabledScript(sc) == Len(sc) = 4 /\ sc[2].fn = "disableWrite"

(***************************************************************************)
(* C15. A completed write consumes the write-enable latch. When the device *)
(* is ready and a is writable, so that the first write completes: after    *)
(* enableWrite; writeByte(a, v1); wait the WEN bit is 0 and the cell holds *)
(* v1; a writeByte(a, v2) that follows without a new enableWrite leaves    *)
(* v1 in the cell and the device ready, and readByte(a) returns v1. After  *)
(* enableWrite; disableWrite a writeByte changes no cell, and readByte     *)
(* returns what the cell held.                                             *)
(***************************************************************************)
LatchConsumed ==
    LET sc == plan[1].script
        a  == sc[Len(sc)].addr
    IN /\ (IsTwiceScript(sc) /\ plan[1].ready0 /\ Writable(a, 1)) =>
            /\ After(1, 3) => /\ ~DevWriteEnabled(status)
                              /\ ~DevBusy(status)
                              /\ MemRead(mem, a % MemSize) = sc[2].data
            /\ plan[1].next > 4 => /\ MemRead(mem, a % MemSize) = sc[2].data
                                   /\ ~DevWriteEnabled(status)
                                   /\ ~DevBusy(status)
            /\ After(1, 5) => retVal[1] = sc[2].data
       /\ IsDisabledScript(sc) =>
            /\ mem = plan[1].mem0
            /\ (plan[1].next > 3 /\ plan[1].ready0) => ~DevWriteEnabled(status)
            /\ (After(1, 4) /\ plan[1].ready0) =>
                  retVal[1] = MemRead(plan[1].mem0, a % MemSize)

\* the second write, of a different byte over a cell that held a third, has
\* been ignored and the byte of the first write has been read back
LatchConsumedWitness ==
    LET sc == plan[1].script
    IN /\ IsTwiceScript(sc) /\ After(1, 5)
       /\ plan[1].ready0 /\ Writable(sc[2].addr, 1)
       /\ sc[2].addr = 65535 /\ sc[2].data = 165 /\ sc[4].data = 90
       /\ MemRead(plan[1].mem0, 4095) = Stored(4095)
       /\ TxBytes(trace[1]) = <<3, 255, 255, 0>>
       /\ retVal[1] = 165

\* the addresses each block-protection level makes read-only
ProtectedRange(level) ==
    CASE level = 0 -> {}
      [] level = 1 -> 3072..4095
      [] level = 2 -> 2048..4095
      [] level = 3 -> 0..4095

\* the cells a write call addresses, and the byte it sends for cell x
TargetCells(w) ==
    IF w.fn = "writeByte" THEN {w.addr} ELSE {w.addr + i : i \in 0..(w.length - 1)}

SentFor(w, x) == IF w.fn = "writeByte" THEN w.data ELSE w.buf[x - w.addr + 1]

(***************************************************************************)
(* C16. Block protection. Once BP has been set through writeStatusReg      *)
(* (write enabled, device ready, protection latch open), enableWrite; a    *)
(* writeByte or writeRange; wait leaves every addressed cell inside the    *)
(* level's range (Quarter 0x0C00-0x0FFF, Half 0x0800-0x0FFF, WholeMemory   *)
(* 0x0000-0x0FFF, None nothing) as it was and stores the byte sent in      *)
(* every addressed cell outside it; the functions return no value; the     *)
(* read that follows returns the cells' content. BP changes only in the    *)
(* step that ends a writeStatusReg frame.                                  *)
(***************************************************************************)
BlockProtection ==
    /\ [](LET sc    == plan[1].script
              level == CHOOSE l \in 0..3 : sc = ProtectThenWrite(l, sc[5], sc[7])
              w     == sc[5]
              cells == TargetCells(w) \cup DOMAIN mem \cup DOMAIN plan[1].mem0
          IN (plan[1].ready0 /\ ~DevProtectLatch(plan[1].status0)) =>
               /\ plan[1].next > 3 => (status \div 4) % 4 = level
               /\ plan[1].next > 6 =>
                     \A x \in cells :
                       MemRead(mem, x) =
                         IF x \in TargetCells(w) /\ x \notin ProtectedRange(level)
                         THEN SentFor(w, x)
                         ELSE MemRead(plan[1].mem0, x)
               /\ After(1, 5) => retVal[1] = 0
               /\ (After(1, 7) /\ w.fn = "writeByte") => retVal[1] = MemRead(mem, w.addr)
               /\ (After(1, 7) /\ w.fn = "writeRange") =>
                     \A i \in 0..(w.length - 1) : buf[1][i + 1] = MemRead(mem, w.addr + i))
    /\ [][(status' \div 4) % 4 # (status \div 4) % 4 =>
             Running(1, "writeStatusReg") /\ PC(1) = 80]_vars

\* under Quarter a range across 0x0BFF / 0x0C00 was written: the cell below the
\* boundary holds the byte sent, the cell above it what it held
BlockProtectionWitness ==
    LET sc == plan[1].script
    IN /\ After(1, 7)
       /\ plan[1].status0 = 0
       /\ sc = ProtectThenWrite(1, sc[5], sc[7])
       /\ sc[5].fn = "writeRange" /\ sc[5].addr = 3071
       /\ DevProtection(status) = BlockProtection_Quarter
       /\ 3072 \in DOMAIN plan[1].mem0
       /\ mem[3071] = sc[5].buf[1] /\ mem[3071] # plan[1].mem0[3071]
       /\ mem[3072] = plan[1].mem0[3072] /\ mem[3072] # sc[5].buf[2]
       /\ buf[1] = <<mem[3071], mem[3072]>>

\* the data bytes a range call has exchanged so far: those after the opcode
\* and the two address bytes
DataExchanges(t) == IF Len(TxBytes(t)) > 3 THEN Len(TxBytes(t)) - 3 ELSE 0

(***************************************************************************)
(* C17. readRange(a, data, L) stores the byte received in exchange 3+i+1   *)
(* in data[i], for i = 0 .. L-1 in increasing order, and leaves every      *)
(* other element of the buffer as it was; with a device that is ready,     *)
(* data[i] is the content of cell a+i. writeRange(a, data, L) sends        *)
(* data[i] in exchange 3+i+1, reads only data[0 .. L-1] and leaves the     *)
(* buffer as it was.                                                       *)
(***************************************************************************)
BufferHandling ==
    \A c \in Threads :
      LET t  == trace[c]
          n  == DataExchanges(t)
          L  == args[c].length
      IN /\ args[c].fn = "readRange" =>
              /\ Len(buf[c]) = Len(buf0[c])
              /\ touched[c] = 0..(n - 1)
              /\ n <= L
              /\ Returned(c) => n = L
              /\ \A i \in 0..(n - 1) : buf[c][i + 1] = RxBytes(t)[3 + i + 1]
              /\ \A k \in (n + 1)..Len(buf[c]) : buf[c][k] = buf0[c][k]
              /\ plan[c].ready0 =>
                    \A i \in 0..(n - 1) :
                      buf[c][i + 1] = MemRead(plan[c].mem0, (args[c].addr + i) % MemSize)
         /\ args[c].fn = "writeRange" =>
              /\ buf[c] = buf0[c]
              /\ touched[c] = 0..(n - 1)
              /\ n <= L
              /\ Returned(c) => n = L
              /\ \A i \in 0..(n - 1) : TxBytes(t)[3 + i + 1] = buf0[c][i + 1]

\* a range of one cell was read into a buffer of more elements: data[0] holds
\* the cell's content and the other elements what they held
BufferHandlingWitness ==
    /\ ReturnedFrom(1, "readRange")
    /\ args[1].length = 1 /\ args[1].addr = 65535
    /\ Len(buf[1]) > 1
    /\ plan[1].ready0 /\ plan[1].mem0 # <<>>
    /\ buf[1][1] = Stored(4095)
    /\ \A k \in 2..Len(buf[1]) : buf[1][k] = 85

(***************************************************************************)
(* C18. The trace of EEPROM_wait is a sequence of read-status frames, each *)
(* pad clear, exchange of 0x05, exchange of 0x00, pad set, with one delay  *)
(* of 1 microsecond after every frame whose status byte has RDY = 1 and    *)
(* nothing after the frame whose status byte has RDY = 0: k busy polls     *)
(* give k delays, each between two frames while the pad is set, and none   *)
(* when the first poll finds RDY = 0. No step of EEPROM_wait changes the   *)
(* device's memory or its status register.                                 *)
(***************************************************************************)
WaitTraceShape ==
    /\ [](\A c \in Threads :
            args[c].fn = "wait" =>
              LET t == trace[c]
                  R == StatusReads(t)
                  k == Cardinality({j \in 1..Len(R) : R[j] % 2 = 1})
              IN /\ \A p \in 1..Len(t) :
                      CASE p % 5 = 1 -> t[p] = CsLow
                        [] p % 5 = 2 -> IsXchg(t[p]) /\ t[p][2] = 5
                        [] p % 5 = 3 -> IsXchg(t[p]) /\ t[p][2] = 0
                        [] p % 5 = 4 -> t[p] = CsHigh
                        [] p % 5 = 0 -> t[p] = Delay(1) /\ t[p - 2][3] % 2 = 1
                 /\ NumDelays(t) \in {k, k - 1}
                 /\ (Running(c, "wait") /\ PC(c) = 145) => pad = 1 /\ NumDelays(t) = k - 1
                 /\ Returned(c) => /\ Len(t) = 5 * k + 4
                                   /\ NumDelays(t) = k
                                   /\ R[Len(R)] % 2 = 0
                 /\ (Len(R) >= 1 /\ R[1] % 2 = 0) => NumDelays(t) = 0 /\ Len(t) <= 4)
    /\ [][(args[1].fn = "wait" /\ stk[1] # <<>> /\ stk[1]' # stk[1]) =>
             (mem' = mem /\ status' = status)]_vars

\* EEPROM_wait has returned after three busy polls and three delays, and the
\* byte written before it is stored
WaitTraceShapeWitness ==
    /\ ReturnedFrom(1, "wait")
    /\ Len(trace[1]) = 19
    /\ trace[1][5] = Delay(1) /\ trace[1][10] = Delay(1) /\ trace[1][15] = Delay(1)
    /\ trace[1][16] = CsLow /\ trace[1][19] = CsHigh
    /\ status = 0
    /\ mem # <<>>

\* the device accepts a write of cell a when its status register is s
Accepts(s, a) ==
    /\ s % 2 = 0
    /\ (s \div 2) % 2 = 1
    /\ a % MemSize \notin ProtectedRange((s \div 4) % 4)

\* the status register s after the device's write cycle, if one is running,
\* has ended
Settled(s) == IF s % 2 = 1 THEN s - (s % 4) ELSE s

\* the device after one frame that writes byte v to cell a, when it held
\* status register s0 and memory m0 at the call: the command has taken
\* effect or was ignored, and the write cycle is running or has ended
LeftByWrite(s0, m0, a, v) ==
    /\ \A x \in DOMAIN mem \cup DOMAIN m0 \cup {a % MemSize} :
         MemRead(mem, x) = IF Accepts(s0, a) /\ x = a % MemSize THEN v ELSE MemRead(m0, x)
    /\ status \in IF Accepts(s0, a) THEN {s0 + 1, Settled(s0 + 1)} ELSE {s0, Settled(s0)}

(***************************************************************************)
(* C19. A byte operation is the range operation of length 1: readByte(a)   *)
(* and readRange(a, buf, 1) drive the pad and the bus alike, on the same   *)
(* device state they receive the same bytes, and readByte returns what     *)
(* readRange stores in buf[0]; writeByte(a, v) and writeRange(a, [v], 1)   *)
(* drive the pad and the bus alike and receive the same bytes, and either  *)
(* of them, called on the same device state, leaves the same memory and    *)
(* the same status register.                                               *)
(***************************************************************************)
ByteIsRangeOfOne ==
    LET byte  == plan[1].script[1]
        rng   == plan[2].script[1]
        first == {c \in Threads : Returned(c) /\ args[3 - c].fn = "none"}
    IN /\ (Returned(1) /\ Returned(2)) =>
            /\ Emitted(trace[1]) = Emitted(trace[2])
            /\ Len(trace[1]) = 6
            /\ byte.fn = "writeByte" =>
                  /\ trace[1] = trace[2]
                  /\ buf[2] = buf0[2]
            /\ (byte.fn = "readByte" /\ (plan[1].ready0 \/ DevBusy(status))) =>
                  /\ trace[1] = trace[2]
                  /\ retVal[1] = buf[2][1]
                  /\ mem = plan[1].mem0
       /\ \A c \in first :
            /\ byte.fn = "writeByte" =>
                  LeftByWrite(plan[c].status0, plan[c].mem0, byte.addr, byte.data)
            /\ byte.fn = "readByte" =>
                  /\ mem = plan[c].mem0
                  /\ status \in {plan[c].status0, Settled(plan[c].status0)}
                  /\ plan[c].ready0 =>
                        RxBytes(trace[c])[4] = MemRead(mem, byte.addr % MemSize)

\* writeByte and writeRange of one byte, with the same address and byte, have
\* both returned: the byte is stored and the two traces are the same
ByteIsRangeOfOneWitness ==
    /\ Returned(1) /\ Returned(2)
    /\ args[1] = [fn |-> "writeByte", addr |-> 258, data |-> 165, length |-> 0]
    /\ args[2] = [fn |-> "writeRange", addr |-> 258, data |-> 0, length |-> 1]
    /\ plan[1].status0 = 2
    /\ MemRead(plan[1].mem0, 258) = Stored(258)
    /\ mem[258] = 165
    /\ TxBytes(trace[2]) = <<2, 1, 2, 165>>
    /\ trace[1] = trace[2]

====
